---- MODULE Spec2Model ----
(***************************************************************************)
(* The derived-priority scoring engine of the Vikunja assistant            *)
(* (frontend/utils/priorityCalculation.ts, Taskwarrior-weight version)     *)
(* modelled as a state machine: the state is the task snapshot handed to   *)
(* the engine together with the engine's outputs for that snapshot.        *)
(*                                                                         *)
(* Numbers.  The engine computes with IEEE doubles; the model computes the *)
(* same expressions exactly, in fixed point.  One urgency point is         *)
(* 10 * Fine model units, and Fine is chosen so that every division the    *)
(* engine performs (by 14 days, by 45 days, by 5 for each level of         *)
(* inheritance) is exact.  Instants are counted in quarters of a day.      *)
(***************************************************************************)
EXTENDS Integers, Sequences, FiniteSets, TLC

\* ------------------------------------------------------------------ bounds

\* Number of tasks in a snapshot (ids 1..NumTasks).
NumTasks == 3

\* Largest number of entries in a blocked-side snapshot drawn at Init.
MaxBlocked == 2

\* Largest number of `blocking` entries in a blocking-only snapshot drawn at Init.
MaxBlocking == 3

\* Farthest due date, in days ahead, of the snapshots of SpecDates.
DueHorizonDays == 21

\* Number of clock ticks SpecDates lets pass.
MaxAdvance == 2

\* Most updateTask calls of handleTaskToggle under way at once.
MaxInFlight == 2

\* Most tool calls the model asks for in one turn of a chat request.
MaxToolCalls == 2

\* ------------------------------------------------------- numbers and dates

RECURSIVE Pow5(_)
Pow5(n) == IF n <= 0 THEN 1 ELSE 5 * Pow5(n - 1)

\* Model units per tenth of an urgency point.
Fine == 63 * Pow5(NumTasks)

\* A number written in tenths of a point (39 is 3.9), in model units.
Tenths(x) == x * Fine

\* 1000 * 60 * 60 * 24: the length of a day in clock units.  The clock of the
\* model ticks four times a day.
MsPerDay == 4

\* An optional ISO date string: absent (undefined or ""), present but
\* unparsable (new Date(s).getTime() is NaN), or a valid instant.
NoDate == [kind |-> "absent", at |-> 0]
BadDate == [kind |-> "invalid", at |-> 0]
DateAt(d) == [kind |-> "valid", at |-> d]

\* !dateString
IsMissing(d) == d.kind = "absent"
\* Mutant: the validity check is missing and the unparsable string is read
\* as instant 0, the epoch.
IsNaNDate_Never(d) == FALSE

\* Number.isNaN(new Date(dateString).getTime())
IsNaNDate(d) == d.kind = "invalid"

Min(a, b) == IF a < b THEN a ELSE b
Max(a, b) == IF a > b THEN a ELSE b

\* ------------------------------------------------------------------ weights

\* Decimal weights are written in tenths of a point.
TASKWARRIOR_WEIGHTS ==
    [PRIORITY_LEVELS |-> <<0, 10, 39, 59, 70, 80>>,
     DUE_RANGE_DAYS |-> 14,
     DUE_MAX |-> 120,
     BLOCKING_BONUS |-> 80,
     BLOCKING_INHERITANCE |-> 2,
     BLOCKED_PENALTY |-> -50,
     START_DATE_PAST_BONUS |-> 15,
     START_DATE_FUTURE_PENALTY |-> -30,
     AGE_DECAY_DAYS |-> 45,
     AGE_MAX |-> 20]

\* The weights of the banded version of the engine, in whole points.
PRIORITY_WEIGHTS ==
    [DUE_DATE_URGENT |-> 300,
     DUE_DATE_SOON |-> 150,
     DUE_DATE_THIS_WEEK |-> 75,
     DUE_DATE_OVERDUE |-> 500]

\* -------------------------------------------------------------------- state

VARIABLES
    tasks,       \* the snapshot handed to the engine: a sequence of Task records
    now,         \* the instant new Date() returns, in days
    scored,      \* calculatePriorities(tasks): the tasks with calculatedPriority
    breakdowns,  \* calculatePriorityBreakdown(tasks[i], tasks) for every i
    requests,    \* the updateTask calls of handleTaskToggle that have not settled
    chat         \* one /api/chat request: the handler's position and its MCP client

vars == <<tasks, now, scored, breakdowns, requests, chat>>

\* No completion toggle is under way.
NoRequests == <<>>

\* No chat request has been received; the fields client, transport and
\* connected are those of VikunjaMCPClient (TRUE for a non-null reference).
ChatIdle ==
    [pc |-> "idle", client |-> FALSE, transport |-> FALSE, connected |-> FALSE,
     stepCount |-> 0, toolsLeft |-> 0, allToolCalls |-> 0, response |-> 0]

\* ------------------------------------------------------------ pure functions

getPriorityScore(priority) ==
    LET levels == TASKWARRIOR_WEIGHTS.PRIORITY_LEVELS
        index == Max(0, Min(priority, Len(levels) - 1))
    IN  Tenths(levels[index + 1])

\* Mutant: the ratio grows with the time remaining (diffDays / range).
evaluateDueDate_RatioInverted(dueDate) ==
    IF IsMissing(dueDate) THEN [score |-> 0, hasDueDate |-> FALSE]
    ELSE IF IsNaNDate(dueDate) THEN [score |-> 0, hasDueDate |-> FALSE]
    ELSE LET diffMs == dueDate.at - now
             rangeMs == TASKWARRIOR_WEIGHTS.DUE_RANGE_DAYS * MsPerDay
         IN  IF diffMs <= 0
             THEN [score |-> Tenths(TASKWARRIOR_WEIGHTS.DUE_MAX), hasDueDate |-> TRUE]
             ELSE IF diffMs <= rangeMs
             THEN [score |-> (diffMs * Tenths(TASKWARRIOR_WEIGHTS.DUE_MAX)) \div rangeMs,
                   hasDueDate |-> TRUE]
             ELSE [score |-> 0, hasDueDate |-> TRUE]

\* Mutant: only an instant strictly in the past is overdue, and the window
\* starts strictly after now.
evaluateDueDate_StrictlyPast(dueDate) ==
    IF IsMissing(dueDate) THEN [score |-> 0, hasDueDate |-> FALSE]
    ELSE IF IsNaNDate(dueDate) THEN [score |-> 0, hasDueDate |-> FALSE]
    ELSE LET diffMs == dueDate.at - now
             rangeMs == TASKWARRIOR_WEIGHTS.DUE_RANGE_DAYS * MsPerDay
         IN  IF diffMs < 0
             THEN [score |-> Tenths(TASKWARRIOR_WEIGHTS.DUE_MAX), hasDueDate |-> TRUE]
             ELSE IF diffMs > 0 /\ diffMs <= rangeMs
             THEN [score |-> ((rangeMs - diffMs) * Tenths(TASKWARRIOR_WEIGHTS.DUE_MAX))
                                \div rangeMs,
                   hasDueDate |-> TRUE]
             ELSE [score |-> 0, hasDueDate |-> TRUE]

evaluateDueDate(dueDate) ==
    IF IsMissing(dueDate) THEN [score |-> 0, hasDueDate |-> FALSE]
    ELSE IF IsNaNDate(dueDate) THEN [score |-> 0, hasDueDate |-> FALSE]
    ELSE LET diffMs == dueDate.at - now
             \* diffDays <= c is diffMs <= c * MsPerDay
             rangeMs == TASKWARRIOR_WEIGHTS.DUE_RANGE_DAYS * MsPerDay
         IN  IF diffMs <= 0
             THEN [score |-> Tenths(TASKWARRIOR_WEIGHTS.DUE_MAX), hasDueDate |-> TRUE]
             ELSE IF diffMs <= rangeMs
             THEN [score |-> ((rangeMs - diffMs) * Tenths(TASKWARRIOR_WEIGHTS.DUE_MAX))
                                \div rangeMs,
                   hasDueDate |-> TRUE]
             ELSE [score |-> 0, hasDueDate |-> TRUE]

\* Mutant: a start instant equal to now counts as not yet started.
\* evaluateDueDate of the banded version (overdue / 24 hours / 3 days / 7
\* days), in whole points.
evaluateDueDateBanded(dueDate) ==
    IF IsMissing(dueDate) THEN [score |-> 0, hasDueDate |-> FALSE]
    ELSE IF IsNaNDate(dueDate) THEN [score |-> 0, hasDueDate |-> FALSE]
    ELSE LET diffMs == dueDate.at - now
         IN  IF diffMs < 0
             THEN [score |-> PRIORITY_WEIGHTS.DUE_DATE_OVERDUE, hasDueDate |-> TRUE]
             ELSE IF diffMs < 1 * MsPerDay
             THEN [score |-> PRIORITY_WEIGHTS.DUE_DATE_URGENT, hasDueDate |-> TRUE]
             ELSE IF diffMs < 3 * MsPerDay
             THEN [score |-> PRIORITY_WEIGHTS.DUE_DATE_SOON, hasDueDate |-> TRUE]
             ELSE IF diffMs < 7 * MsPerDay
             THEN [score |-> PRIORITY_WEIGHTS.DUE_DATE_THIS_WEEK, hasDueDate |-> TRUE]
             ELSE [score |-> 0, hasDueDate |-> TRUE]

getStartDateScore_NowIsFuture(startDate) ==
    IF IsMissing(startDate) THEN 0
    ELSE IF IsNaNDate(startDate) THEN 0
    ELSE IF startDate.at >= now
         THEN Tenths(TASKWARRIOR_WEIGHTS.START_DATE_FUTURE_PENALTY)
         ELSE Tenths(TASKWARRIOR_WEIGHTS.START_DATE_PAST_BONUS)

getStartDateScore(startDate) ==
    IF IsMissing(startDate) THEN 0
    ELSE IF IsNaNDate(startDate) THEN 0
    ELSE IF startDate.at > now
         THEN Tenths(TASKWARRIOR_WEIGHTS.START_DATE_FUTURE_PENALTY)
         ELSE Tenths(TASKWARRIOR_WEIGHTS.START_DATE_PAST_BONUS)

getAgeScore(updated) ==
    IF IsMissing(updated) THEN 0
    ELSE IF IsNaNDate(updated) THEN 0
    ELSE LET diffMs == now - updated.at
             decayMs == TASKWARRIOR_WEIGHTS.AGE_DECAY_DAYS * MsPerDay
         IN  IF diffMs <= 0 THEN 0
             ELSE (Min(decayMs, diffMs) * Tenths(TASKWARRIOR_WEIGHTS.AGE_MAX))
                      \div decayMs

\* The other_task_id of the entries of one kind, in list order.
\* !task.relatedTasks || task.relatedTasks.length === 0
HasNoRelations(task) ==
    \/ "relatedTasks" \notin DOMAIN task
    \/ Len(task.relatedTasks) = 0

\* Mutant: every entry counts, whatever its relation kind.
RelatedIds_AnyKind(task, kind) ==
    {task.relatedTasks[k].other_task_id : k \in 1..Len(task.relatedTasks)}

RelatedIds(task, kind) ==
    LET entries == SelectSeq(task.relatedTasks, LAMBDA r : r.relation_kind = kind)
    IN  {entries[k].other_task_id : k \in 1..Len(entries)}

\* Mutant: the blockers are read from the `blocking` entries.
getBlockingTasks_FromBlockingEntries(task, allTasks) ==
    LET blockingTaskIds == RelatedIds(task, "blocking")
    IN  SelectSeq(allTasks, LAMBDA t : t.id \in blockingTaskIds)

getBlockingTasks(task, allTasks) ==
    IF HasNoRelations(task) THEN <<>>
    ELSE LET blockingTaskIds == RelatedIds(task, "blocked")
         IN  SelectSeq(allTasks, LAMBDA t : t.id \in blockingTaskIds)

\* Mutant: one task per `blocking` entry, looked up by id, instead of a
\* filter over the task list.
getBlockedTasks_PerEntry(task, allTasks) ==
    LET entries == SelectSeq(task.relatedTasks,
                             LAMBDA r : /\ r.relation_kind = "blocking"
                                        /\ \E k \in 1..Len(allTasks) :
                                               allTasks[k].id = r.other_task_id)
    IN  [n \in 1..Len(entries) |->
            allTasks[CHOOSE k \in 1..Len(allTasks) :
                         allTasks[k].id = entries[n].other_task_id]]

getBlockedTasks(task, allTasks) ==
    IF HasNoRelations(task) THEN <<>>
    ELSE LET blockedTaskIds == RelatedIds(task, "blocking")
         IN  SelectSeq(allTasks, LAMBDA t : t.id \in blockedTaskIds)

\* Mutant: a completed blocker still blocks.
isTaskBlocked_ByAnyBlocker(task, allTasks) ==
    Len(getBlockingTasks(task, allTasks)) > 0

isTaskBlocked(task, allTasks) ==
    IF HasNoRelations(task) THEN FALSE
    ELSE LET blockingTasks == getBlockingTasks(task, allTasks)
         IN  \E k \in 1..Len(blockingTasks) : ~blockingTasks[k].completed

\* ------------------------------------------------------ the recursive score

\* The JavaScript call stack is finite: a recursion nested deeper than this
\* ends the walk ("Maximum call stack size exceeded").
StackLimit == NumTasks + 2

\* blockedPriority * BLOCKING_INHERITANCE
Inherit(blockedPriority) ==
    (blockedPriority * TASKWARRIOR_WEIGHTS.BLOCKING_INHERITANCE) \div 10

RECURSIVE SumInherited(_)
SumInherited(results) ==
    IF Len(results) = 0 THEN 0
    ELSE Inherit(results[1].score) + SumInherited(Tail(results))

RECURSIVE ConcatCalls(_)
ConcatCalls(results) ==
    IF Len(results) = 0 THEN <<>>
    ELSE results[1].calls \o ConcatCalls(Tail(results))

\* One call of calculateTaskPriority as a walk records it: the task, the visited
\* set the call was entered with, its depth (the number of calls of
\* calculateTaskPriority it is nested in: 0 for a call made by
\* calculatePriorities or calculatePriorityBreakdown), how it ended and
\* what it returned.
Call(task, visited, depth, outcome, score) ==
    [id |-> task.id, visited |-> visited, depth |-> depth, outcome |-> outcome,
     score |-> score]

\* Mutant: the id is never added to the visited set.
AddVisited_Forgotten(visited, task) == visited

\* visited.add(task.id)
AddVisited(visited, task) == visited \cup {task.id}

\* Mutant: completed dependents are not filtered out.
ActiveBlockedTasks_Unfiltered(task, allTasks) ==
    getBlockedTasks(task, allTasks)

\* getBlockedTasks(task, allTasks).filter((t) => !t.completed)
ActiveBlockedTasks(task, allTasks) ==
    SelectSeq(getBlockedTasks(task, allTasks), LAMBDA t : ~t.completed)

\* Mutant: no flat bonus, only the inherited shares.
FlatBonus_Dropped(blockedTasks) == 0

\* The flat bonus of a task with at least one incomplete dependent.
FlatBonus(blockedTasks) ==
    IF Len(blockedTasks) > 0 THEN Tenths(TASKWARRIOR_WEIGHTS.BLOCKING_BONUS) ELSE 0

\* Mutant: the penalty is taken twice.
AfterPenalty_Twice(blocked, totalBeforeBlocked) ==
    IF blocked
    THEN totalBeforeBlocked + 2 * Tenths(TASKWARRIOR_WEIGHTS.BLOCKED_PENALTY)
    ELSE totalBeforeBlocked

\* blocked ? totalBeforeBlocked + BLOCKED_PENALTY : totalBeforeBlocked
AfterPenalty(blocked, totalBeforeBlocked) ==
    IF blocked
    THEN totalBeforeBlocked + Tenths(TASKWARRIOR_WEIGHTS.BLOCKED_PENALTY)
    ELSE totalBeforeBlocked

\* calculateTaskPriority(task, allTasks, visited).  Returns the score and the
\* calls made, this one first, in call order.  Every recursive call gets its
\* own copy of the visited set, new Set(visited), taken after visited.add.
RECURSIVE calculateTaskPriority(_, _, _, _)
calculateTaskPriority(task, allTasks, visited, depth) ==
    IF depth >= StackLimit
    THEN [score |-> 0, calls |-> <<Call(task, visited, depth, "overflow", 0)>>]
    ELSE IF task.id \in visited
    THEN [score |-> 0, calls |-> <<Call(task, visited, depth, "guard", 0)>>]
    ELSE IF task.completed
    THEN [score |-> 0, calls |-> <<Call(task, visited, depth, "completed", 0)>>]
    ELSE
    LET added == AddVisited(visited, task)
        baseScore == getPriorityScore(task.priority)
        dueDateScore == evaluateDueDate(task.dueDate).score
        startDateScore == getStartDateScore(task.startDate)
        ageScore == getAgeScore(task.updated)
        blocked == isTaskBlocked(task, allTasks)
        blockedTasks == ActiveBlockedTasks(task, allTasks)
        results == [k \in 1..Len(blockedTasks) |->
                      calculateTaskPriority(blockedTasks[k], allTasks, added, depth + 1)]
        blockingBonus == FlatBonus(blockedTasks) + SumInherited(results)
        totalBeforeBlocked ==
            baseScore + dueDateScore + startDateScore + ageScore + blockingBonus
        score == AfterPenalty(blocked, totalBeforeBlocked)
    IN  [score |-> score,
         calls |-> <<Call(task, visited, depth, "scored", score)>>
                      \o ConcatCalls(results)]

\* The breakdown of a completed task.
CompletedBreakdown ==
    [baseScore |-> 0, dueDateScore |-> 0, hasDueDate |-> FALSE,
     startDateScore |-> 0, blockingBonus |-> 0, isBlocked |-> FALSE,
     totalBeforeBlocked |-> 0, finalScore |-> 0]

\* Mutant: the breakdown starts its walks with an empty visited set.
BreakdownVisited_Empty(task) == {}

\* new Set<number>([task.id])
BreakdownVisited(task) == {task.id}

\* The breakdown of a task that is not completed.
ActiveBreakdown(task, allTasks) ==
    LET baseScore == getPriorityScore(task.priority)
        due == evaluateDueDate(task.dueDate)
        startDateScore == getStartDateScore(task.startDate)
        ageScore == getAgeScore(task.updated)
        isBlocked == isTaskBlocked(task, allTasks)
        blockedTasks == ActiveBlockedTasks(task, allTasks)
        results == [k \in 1..Len(blockedTasks) |->
                      calculateTaskPriority(blockedTasks[k], allTasks,
                                            BreakdownVisited(task), 0)]
        blockingBonus == FlatBonus(blockedTasks) + SumInherited(results)
        totalBeforeBlocked ==
            baseScore + due.score + startDateScore + ageScore + blockingBonus
    IN  [baseScore |-> baseScore, dueDateScore |-> due.score,
         hasDueDate |-> due.hasDueDate, startDateScore |-> startDateScore,
         ageScore |-> ageScore, blockingBonus |-> blockingBonus,
         isBlocked |-> isBlocked, totalBeforeBlocked |-> totalBeforeBlocked,
         finalScore |-> AfterPenalty(isBlocked, totalBeforeBlocked)]

\* Mutant: the breakdown does not look at the completed flag.
calculatePriorityBreakdown_SkipsCompleted(task, allTasks) ==
    ActiveBreakdown(task, allTasks)

calculatePriorityBreakdown(task, allTasks) ==
    IF task.completed THEN CompletedBreakdown ELSE ActiveBreakdown(task, allTasks)

\* Mutant: a score the task already carries is kept.
Annotate_KeepsAttached(task, calculatedPriority) ==
    [f \in DOMAIN task \cup {"calculatedPriority"} |->
        IF f \in DOMAIN task THEN task[f] ELSE calculatedPriority]

\* { ...task, calculatedPriority }
Annotate(task, calculatedPriority) ==
    [f \in DOMAIN task \cup {"calculatedPriority"} |->
        IF f = "calculatedPriority" THEN calculatedPriority ELSE task[f]]

\* Mutant: one visited set for the whole batch, holding the tasks scored
\* before this one.
TopVisited_Shared(allTasks, i) == {allTasks[k].id : k \in 1..(i - 1)}

\* new Set<number>(), made for each task of the batch
TopVisited(allTasks, i) == {}

calculatePriorities(allTasks) ==
    [i \in 1..Len(allTasks) |->
        Annotate(allTasks[i],
                 calculateTaskPriority(allTasks[i], allTasks,
                                       TopVisited(allTasks, i), 0).score)]

\* The calls of calculateTaskPriority made while calculatePriorities scores
\* allTasks[i].
WalkOf(allTasks, i) == calculateTaskPriority(allTasks[i], allTasks, {}, 0).calls

\* task.calculatedPriority ?? 0
PriorityOrZero(task) ==
    IF "calculatedPriority" \in DOMAIN task THEN task.calculatedPriority ELSE 0

\* Mutant: the reduce replaces the top on `>=`, so the last of several tied
\* tasks wins.
getTopPriorityTask_LastOfTies(list) ==
    LET incompleteTasks == SelectSeq(list, LAMBDA t : ~t.completed)
        RECURSIVE reduce(_, _)
        reduce(top, k) ==
            IF k > Len(incompleteTasks) THEN top
            ELSE LET current == incompleteTasks[k]
                 IN  reduce(IF PriorityOrZero(current) >= PriorityOrZero(top)
                            THEN current ELSE top,
                            k + 1)
    IN  IF Len(incompleteTasks) = 0 THEN <<>>
        ELSE <<reduce(incompleteTasks[1], 2)>>

\* getTopPriorityTask(tasks): << >> for null, <<task>> otherwise.
getTopPriorityTask(list) ==
    LET incompleteTasks == SelectSeq(list, LAMBDA t : ~t.completed)
        RECURSIVE reduce(_, _)
        reduce(top, k) ==
            IF k > Len(incompleteTasks) THEN top
            ELSE LET current == incompleteTasks[k]
                 IN  reduce(IF PriorityOrZero(current) > PriorityOrZero(top)
                            THEN current ELSE top,
                            k + 1)
    IN  IF Len(incompleteTasks) = 0 THEN <<>>
        ELSE <<reduce(incompleteTasks[1], 2)>>

\* Mutant: the comparator has no fallback to the id.
compareTasks_NoFallback(a, b) ==
    IF a.completed # b.completed THEN (IF a.completed THEN 1 ELSE -1)
    ELSE PriorityOrZero(b) - PriorityOrZero(a)

\* Mutant: the lower score sorts first.
compareTasks_LowestFirst(a, b) ==
    IF a.completed # b.completed THEN (IF a.completed THEN 1 ELSE -1)
    ELSE LET aPriority == PriorityOrZero(a)
             bPriority == PriorityOrZero(b)
         IN  IF aPriority # bPriority THEN aPriority - bPriority
             ELSE b.id - a.id

\* The comparator sortByPriority hands to sort.
compareTasks(a, b) ==
    IF a.completed # b.completed THEN (IF a.completed THEN 1 ELSE -1)
    ELSE LET aPriority == PriorityOrZero(a)
             bPriority == PriorityOrZero(b)
         IN  IF aPriority # bPriority THEN bPriority - aPriority
             ELSE b.id - a.id

\* Array.prototype.sort is stable: an element is placed before the first
\* element the comparator puts it strictly before, after every other one.
RECURSIVE InsertSorted(_, _)
InsertSorted(sorted, x) ==
    IF Len(sorted) = 0 THEN <<x>>
    ELSE IF compareTasks(x, Head(sorted)) < 0 THEN <<x>> \o sorted
    ELSE <<Head(sorted)>> \o InsertSorted(Tail(sorted), x)

RECURSIVE SortInto(_, _)
SortInto(sorted, rest) ==
    IF Len(rest) = 0 THEN sorted
    ELSE SortInto(InsertSorted(sorted, Head(rest)), Tail(rest))

\* [...tasks].sort(comparator)
sortByPriority(list) == SortInto(<<>>, list)

\* --------------------------------------------------------------- snapshots

Now0 == 100

TaskIds == 1..NumTasks

Relation(kind, other) == [relation_kind |-> kind, other_task_id |-> other]

\* The attributes a task of the drawn snapshots has besides its relations:
\* the declared priority cycles through LOW..DO_IT_NOW with the id, task 1 is
\* due in a week, task 2 was last updated nine days ago, task 3 has started.
PlainTask(id, relatedTasks) ==
    [id |-> id, completed |-> FALSE, priority |-> 1 + ((id + 3) % 5),
     dueDate |-> IF id = 1 THEN DateAt(Now0 + 7 * MsPerDay) ELSE NoDate,
     startDate |-> IF id = 3 THEN DateAt(Now0 - 1) ELSE NoDate,
     updated |-> IF id = 2 THEN DateAt(Now0 - 9 * MsPerDay) ELSE NoDate,
     relatedTasks |-> relatedTasks]

\* A task nobody has prioritised and that cannot be started yet.
DeferredTask(id, relatedTasks) ==
    [id |-> id, completed |-> FALSE, priority |-> 0, dueDate |-> NoDate,
     startDate |-> DateAt(Now0 + 5), updated |-> NoDate,
     relatedTasks |-> relatedTasks]

\* The subsets of S with at most k elements.
RECURSIVE BoundedSubsets(_, _)
BoundedSubsets(S, k) ==
    IF k <= 0 THEN {{}}
    ELSE LET smaller == BoundedSubsets(S, k - 1)
         IN  smaller \cup {T \cup {x} : T \in smaller, x \in S}

\* The entries a blocked-side relation list is drawn from, numbered: `blocked`
\* by any task of the snapshot or by an id absent from it, and `related` (a
\* kind that is not scored) to the first task.
NumOptions == NumTasks + 2

OptionAt(k) ==
    IF k <= NumTasks + 1 THEN Relation("blocked", k) ELSE Relation("related", 1)

\* The relation list of `owner` when the snapshot holds the entries `chosen`
\* (pairs <<owner, option number>>), in option order.
ListOf(owner, chosen) ==
    LET picked == SelectSeq([k \in 1..NumOptions |-> k],
                            LAMBDA k : <<owner, k>> \in chosen)
    IN  [n \in 1..Len(picked) |-> OptionAt(picked[n])]

\* Family 1: every snapshot with at most MaxBlocked entries declared on the
\* blocked side (blocked by a task, by itself, by an absent id) or unscored.
BlockedSnapshots ==
    {[i \in TaskIds |-> PlainTask(i, ListOf(i, chosen))] :
        chosen \in BoundedSubsets(TaskIds \X (1..NumOptions), MaxBlocked)}

\* The `blocking` entries of `owner` among `chosen` (pairs <<owner, other>>).
BlockingListOf(owner, chosen) ==
    LET picked == SelectSeq([k \in 1..NumTasks |-> k],
                            LAMBDA k : <<owner, k>> \in chosen)
    IN  [n \in 1..Len(picked) |-> Relation("blocking", picked[n])]

\* Family 2: every graph of at most MaxBlocking `blocking` entries, declared on
\* the blocker's side only (chains, diamonds, cycles, self-loops).
BlockingSnapshots ==
    {[i \in TaskIds |-> PlainTask(i, BlockingListOf(i, chosen))] :
        chosen \in BoundedSubsets(TaskIds \X TaskIds, MaxBlocking)}

\* Family 3: task 1 as a hub.  Every other task d is linked to it in one of
\* these ways and is either a plain or a deferred task; the hub may itself be
\* blocked by one of them.
\*   none      no entries
\*   declared  hub: blocking d                 (the dependent's side is missing)
\*   blocks    hub: blocking d; d: blocked hub (what the repository stores)
\*   cycle     as blocks, and d: blocking hub
HubLinks == {"none", "declared", "blocks", "cycle"}

HubList(link, hubBlockedBy) ==
    LET deps == SelectSeq([k \in 1..NumTasks |-> k],
                          LAMBDA d : d > 1 /\ link[d] # "none")
        blocking == [n \in 1..Len(deps) |-> Relation("blocking", deps[n])]
    IN  IF hubBlockedBy = 0 THEN blocking
        ELSE Append(blocking, Relation("blocked", hubBlockedBy))

DependentList(link) ==
    IF link = "blocks" THEN <<Relation("blocked", 1)>>
    ELSE IF link = "cycle" THEN <<Relation("blocked", 1), Relation("blocking", 1)>>
    ELSE <<>>

HubSnapshots ==
    {[i \in TaskIds |->
        IF i = 1 THEN PlainTask(1, HubList(link, hubBlockedBy))
        ELSE IF i \in deferred THEN DeferredTask(i, DependentList(link[i]))
        ELSE PlainTask(i, DependentList(link[i]))] :
        link \in [TaskIds \ {1} -> HubLinks],
        deferred \in SUBSET (TaskIds \ {1}),
        hubBlockedBy \in {0} \cup (TaskIds \ {1})}

\* Family 4: task 1 with up to MaxBlocking `blocking` entries in any order,
\* the same task possibly named by several of them.
RepeatedSnapshots ==
    {[i \in TaskIds |->
        PlainTask(i, IF i = 1
                     THEN [n \in 1..Len(others) |-> Relation("blocking", others[n])]
                     ELSE <<>>)] :
        others \in UNION {[1..n -> TaskIds \ {1}] : n \in 1..MaxBlocking}}

Snapshots ==
    BlockedSnapshots \cup BlockingSnapshots \cup HubSnapshots \cup RepeatedSnapshots

\* --------------------------------------------------------------- operations

\* What the application holds once refreshData has run on the snapshot
\* `allTasks`: the scored list, and the breakdown the details view shows.
Scored(allTasks) ==
    /\ scored' = calculatePriorities(allTasks)
    /\ breakdowns' = [i \in 1..Len(allTasks) |->
                         calculatePriorityBreakdown(allTasks[i], allTasks)]

Init ==
    /\ now = Now0
    /\ tasks \in Snapshots
    /\ scored = calculatePriorities(tasks)
    /\ breakdowns = [i \in 1..Len(tasks) |-> calculatePriorityBreakdown(tasks[i], tasks)]
    /\ requests = NoRequests
    /\ chat = ChatIdle

\* One task is marked done, or reopened, in the repository; the snapshot is
\* fetched again and scored.
ToggleCompleted(i) ==
    /\ tasks' = [tasks EXCEPT ![i].completed = ~@]
    /\ now' = now
    /\ Scored(tasks')
    /\ UNCHANGED <<requests, chat>>

Next == \E i \in TaskIds : ToggleCompleted(i)

Spec == Init /\ [][Next]_vars

\* The same snapshots and operations, for the claims about the walks and the
\* start date.
SpecWalks == Init /\ [][Next]_vars

\* The same operations on the hub and repeated-entry snapshots alone.
HubInit ==
    /\ now = Now0
    /\ tasks \in HubSnapshots \cup RepeatedSnapshots
    /\ scored = calculatePriorities(tasks)
    /\ breakdowns = [i \in 1..Len(tasks) |-> calculatePriorityBreakdown(tasks[i], tasks)]
    /\ requests = NoRequests
    /\ chat = ChatIdle

SpecHub == HubInit /\ [][Next]_vars

\* The hub snapshots in which no task is deferred.
PlainHubSnapshots ==
    {[i \in TaskIds |->
        IF i = 1 THEN PlainTask(1, HubList(link, hubBlockedBy))
        ELSE PlainTask(i, DependentList(link[i]))] :
        link \in [TaskIds \ {1} -> HubLinks],
        hubBlockedBy \in {0} \cup (TaskIds \ {1})}

PlainHubInit ==
    /\ now = Now0
    /\ tasks \in PlainHubSnapshots
    /\ scored = calculatePriorities(tasks)
    /\ breakdowns = [i \in 1..Len(tasks) |-> calculatePriorityBreakdown(tasks[i], tasks)]
    /\ requests = NoRequests
    /\ chat = ChatIdle

SpecPlainHub == PlainHubInit /\ [][Next]_vars

\* ---------------------------------------------------- completion toggles
\* In this specification `tasks` is the list the server holds and `scored`
\* the list the application displays (the React state `tasks`).

\* Task 1 alone, or blocking every other task.
AppSnapshots ==
    {[i \in TaskIds |->
        IF i = 1 THEN PlainTask(1, HubList([d \in TaskIds \ {1} |-> link], 0))
        ELSE PlainTask(i, DependentList(link))] :
        link \in {"none", "blocks"}}

AppInit ==
    /\ now = Now0
    /\ tasks \in AppSnapshots
    /\ scored = calculatePriorities(tasks)
    /\ breakdowns = [i \in 1..Len(tasks) |-> calculatePriorityBreakdown(tasks[i], tasks)]
    /\ requests = NoRequests
    /\ chat = ChatIdle

\* prev.map((t) => (t.id === id ? replacement : t))
ReplaceTask(list, id, replacement) ==
    [k \in 1..Len(list) |-> IF list[k].id = id THEN replacement ELSE list[k]]

\* The user clicks the checkbox of task id: the task is flipped in the
\* displayed list at once and updateTask is called with the new done flag;
\* `task` is the displayed task as it was, kept for the catch branch.
handleTaskToggle(id) ==
    /\ Len(requests) < MaxInFlight
    /\ \E i \in 1..Len(scored) :
           /\ scored[i].id = id
           /\ \A j \in 1..(i - 1) : scored[j].id # id
           /\ LET task == scored[i]
                  updatedLocal == [task EXCEPT !.completed = ~@]
              IN  /\ scored' = ReplaceTask(scored, id, updatedLocal)
                  /\ requests' = Append(requests,
                                        [id |-> id, done |-> updatedLocal.completed,
                                         task |-> task, state |-> "sent",
                                         updated |-> <<>>])
    /\ UNCHANGED <<tasks, now, breakdowns, chat>>

\* The server handles one update: it stores the done flag and answers with
\* the task as it now holds it, or it refuses and answers with an error.
ServerUpdate(k, accepted) ==
    /\ k \in 1..Len(requests)
    /\ requests[k].state = "sent"
    /\ IF accepted
       THEN /\ tasks' = [i \in 1..Len(tasks) |->
                            IF tasks[i].id = requests[k].id
                            THEN [tasks[i] EXCEPT !.completed = requests[k].done]
                            ELSE tasks[i]]
            /\ requests' =
                   [requests EXCEPT
                       ![k].state = "ok",
                       ![k].updated =
                           SelectSeq(tasks', LAMBDA t : t.id = requests[k].id)]
       ELSE /\ tasks' = tasks
            /\ requests' = [requests EXCEPT ![k].state = "failed"]
    /\ UNCHANGED <<now, scored, breakdowns, chat>>

\* The answer to one update arrives: the displayed task is replaced by the
\* server's task, or on an error by the task kept at the click.
ToggleSettled(k) ==
    /\ k \in 1..Len(requests)
    /\ requests[k].state \in {"ok", "failed"}
    /\ scored' = ReplaceTask(scored, requests[k].id,
                             IF requests[k].state = "ok"
                             THEN requests[k].updated[1]
                             ELSE requests[k].task)
    /\ requests' = SubSeq(requests, 1, k - 1)
                       \o SubSeq(requests, k + 1, Len(requests))
    /\ UNCHANGED <<tasks, now, breakdowns, chat>>

\* A chat turn, taken while no toggle is under way: the assistant marks a
\* task done or reopens it on the server, then refreshData fetches the list
\* and scores it.
handleSendMessage(i) ==
    /\ requests = NoRequests
    /\ ToggleCompleted(i)

AppNext ==
    \/ \E id \in TaskIds : handleTaskToggle(id)
    \/ \E k \in 1..MaxInFlight, accepted \in BOOLEAN : ServerUpdate(k, accepted)
    \/ \E k \in 1..MaxInFlight : ToggleSettled(k)
    \/ \E i \in TaskIds : handleSendMessage(i)

SpecApp == AppInit /\ [][AppNext]_vars

\* ------------------------------------------------------ the /api/chat handler

\* chatWithTools(..., 10, ...)
maxSteps == 10

\* A request has arrived; the handler has a fresh VikunjaMCPClient to create.
ChatInit ==
    /\ now = Now0
    /\ tasks = <<>>
    /\ scored = <<>>
    /\ breakdowns = <<>>
    /\ requests = NoRequests
    /\ chat = [ChatIdle EXCEPT !.pc = "received"]

\* The handler answers with `status` and returns.
Respond(status) == [chat EXCEPT !.pc = "done", !.response = status]

\* The body is read: a missing field is answered with 400, a missing API key
\* with 500; otherwise the MCP client is created.
ChatReceive(complete, keyed) ==
    /\ chat.pc = "received"
    /\ chat' = IF ~complete THEN Respond(400)
               ELSE IF ~keyed THEN Respond(500)
               ELSE [chat EXCEPT !.pc = "connect"]
    /\ UNCHANGED <<tasks, now, scored, breakdowns, requests>>

\* mcpClient.connect(): transport and client are created, then
\* client.connect(transport) and listTools() are awaited; a failure of either
\* is rethrown and lands in the handler's catch, which answers with 500.
McpConnect(outcome) ==
    /\ chat.pc = "connect"
    /\ chat' =
           IF chat.connected THEN [chat EXCEPT !.pc = "chat"]
           ELSE IF outcome = "ok"
           THEN [chat EXCEPT !.transport = TRUE, !.client = TRUE,
                             !.connected = TRUE, !.pc = "chat"]
           ELSE [Respond(500) EXCEPT !.transport = TRUE, !.client = TRUE]
    /\ UNCHANGED <<tasks, now, scored, breakdowns, requests>>

\* One turn of the loop of chatWithTools: the model is asked; it answers
\* with a final message, with toolCalls tool calls, or the call fails, which
\* chatWithTools does not catch and the handler answers with 500.
ChatCompletion(outcome, toolCalls) ==
    /\ chat.pc = "chat"
    /\ chat.stepCount < maxSteps
    /\ chat' =
           LET stepped == [chat EXCEPT !.stepCount = @ + 1]
           IN  IF outcome = "fails"
               THEN [stepped EXCEPT !.pc = "done", !.response = 500]
               ELSE IF outcome = "final"
               THEN [stepped EXCEPT !.pc = "disconnect"]
               ELSE [stepped EXCEPT !.pc = "tools", !.toolsLeft = toolCalls]
    /\ UNCHANGED <<tasks, now, scored, breakdowns, requests>>

\* The loop ends because stepCount has reached maxSteps.
StepLimitReached ==
    /\ chat.pc = "chat"
    /\ chat.stepCount >= maxSteps
    /\ chat' = [chat EXCEPT !.pc = "disconnect"]
    /\ UNCHANGED <<tasks, now, scored, breakdowns, requests>>

\* One tool call of the turn: the executor's result is recorded, or its
\* error (isError, or a throw of executeTool) is caught by chatWithTools.
ExecuteTool(outcome) ==
    /\ chat.pc = "tools"
    /\ chat' =
           [chat EXCEPT
               !.allToolCalls = IF outcome = "ok" /\ chat.connected /\ chat.client
                                THEN @ + 1 ELSE @,
               !.toolsLeft = @ - 1,
               !.pc = IF chat.toolsLeft = 1 THEN "chat" ELSE "tools"]
    /\ UNCHANGED <<tasks, now, scored, breakdowns, requests>>

\* mcpClient.disconnect() after chatWithTools has returned, then the answer.
McpDisconnect ==
    /\ chat.pc = "disconnect"
    /\ chat' =
           IF chat.client
           THEN [Respond(200) EXCEPT !.client = FALSE, !.transport = FALSE,
                                     !.connected = FALSE]
           ELSE Respond(200)
    /\ UNCHANGED <<tasks, now, scored, breakdowns, requests>>

ChatNext ==
    \/ \E complete, keyed \in BOOLEAN : ChatReceive(complete, keyed)
    \/ \E outcome \in {"ok", "connectFails", "listToolsFails"} : McpConnect(outcome)
    \/ \E outcome \in {"final", "tools", "fails"}, toolCalls \in 1..MaxToolCalls :
           ChatCompletion(outcome, toolCalls)
    \/ StepLimitReached
    \/ \E outcome \in {"ok", "isError", "throws"} : ExecuteTool(outcome)
    \/ McpDisconnect

SpecChat == ChatInit /\ [][ChatNext]_vars

\* ------------------------------------------------- snapshots with due dates

\* The task the date tests build: MEDIUM priority, no relations.
DatedTask(dueDate) ==
    [id |-> 1, completed |-> FALSE, priority |-> 2, dueDate |-> dueDate,
     startDate |-> NoDate, updated |-> NoDate, relatedTasks |-> <<>>]

\* The due dates the repository may hold: none, an unparsable string, or an
\* instant from a day ago to DueHorizonDays ahead of the first scoring pass.
DueDates ==
    {NoDate, BadDate}
        \cup {DateAt(Now0 + k) : k \in (0 - MsPerDay)..(DueHorizonDays * MsPerDay)}

DatesInit ==
    /\ now = Now0
    /\ \E dueDate \in DueDates : tasks = <<DatedTask(dueDate)>>
    /\ scored = calculatePriorities(tasks)
    /\ breakdowns = [i \in 1..Len(tasks) |-> calculatePriorityBreakdown(tasks[i], tasks)]
    /\ requests = NoRequests
    /\ chat = ChatIdle

\* The assistant changes the due date of the task in the repository; the
\* snapshot is fetched again and scored.
SetDueDate(dueDate) ==
    /\ tasks' = [tasks EXCEPT ![1].dueDate = dueDate]
    /\ now' = now
    /\ Scored(tasks')
    /\ UNCHANGED <<requests, chat>>

\* Time passes and the unchanged snapshot is scored again, at the new instant.
ClockTick ==
    /\ now < Now0 + MaxAdvance
    /\ now' = now + 1
    /\ tasks' = tasks
    /\ scored' = calculatePriorities(tasks)'
    /\ breakdowns' = [i \in 1..Len(tasks) |->
                         calculatePriorityBreakdown(tasks[i], tasks)]'
    /\ UNCHANGED <<requests, chat>>

DatesNext ==
    \/ \E dueDate \in DueDates : SetDueDate(dueDate)
    \/ ClockTick

SpecDates == DatesInit /\ [][DatesNext]_vars

\* ------------------------------------------------------------------ claims

Idx == 1..Len(tasks)

\* The walk calculatePriorities makes for tasks[i].
Walk(i) == WalkOf(tasks, i)

\* C1: for every task of the snapshot (blocked or not, on a cycle, naming
\* itself, completed) the score calculatePriorities attaches to it equals the
\* finalScore of its breakdown on the same snapshot.
C1_ScalarEqualsBreakdown ==
    \A i \in Idx : scored[i].calculatedPriority = breakdowns[i].finalScore

\* A blocked task on a cycle: its walk came back to it and was cut by the
\* guard, and it inherited more than the flat bonus.
C1_Witness ==
    \E i \in Idx :
        /\ breakdowns[i].isBlocked
        /\ \E k \in 1..Len(Walk(i)) :
               Walk(i)[k].outcome = "guard" /\ Walk(i)[k].id = tasks[i].id
        /\ breakdowns[i].blockingBonus > Tenths(TASKWARRIOR_WEIGHTS.BLOCKING_BONUS)
        /\ scored[i].calculatedPriority = breakdowns[i].finalScore

\* The call that made call k of a walk: the last earlier call one level up.
Parent(walk, k) ==
    CHOOSE p \in 1..(k - 1) :
        /\ walk[p].depth = walk[k].depth - 1
        /\ \A q \in (p + 1)..(k - 1) : walk[q].depth >= walk[k].depth

\* C2: every walk of calculatePriorities ends, whatever the relation graph:
\* the stack limit is never reached; each recursive call is entered with the
\* caller's visited set plus the caller's id, which was not in it (the set
\* strictly grows along a chain of calls); a call on an id already in the
\* visited set returns 0 and makes no call; and no call is nested in more than
\* NumTasks recursive calls.
C2_WalkTerminates ==
    \A i \in Idx :
        LET walk == Walk(i)
        IN  \A k \in 1..Len(walk) :
                LET c == walk[k]
                IN  /\ c.outcome # "overflow"
                    /\ c.depth <= Len(tasks)
                    /\ Cardinality(c.visited) = c.depth
                    /\ (c.outcome = "guard") = (c.id \in c.visited)
                    /\ c.outcome = "guard" =>
                          /\ c.score = 0
                          /\ k < Len(walk) => walk[k + 1].depth <= c.depth
                    /\ c.depth > 0 =>
                          LET p == walk[Parent(walk, k)]
                          IN  /\ p.outcome = "scored"
                              /\ p.id \notin p.visited
                              /\ c.visited = p.visited \cup {p.id}

\* A cycle through every task of the snapshot: the walk of one of them nests
\* NumTasks calls and the last one is cut by the guard.
C2_Witness ==
    \E i \in Idx :
        \E k \in 1..Len(Walk(i)) :
            /\ Walk(i)[k].outcome = "guard"
            /\ Walk(i)[k].depth = Len(tasks)
            /\ Walk(i)[k].id = tasks[i].id

\* a blocks b: a declares `blocking` b, or b declares `blocked` by a.
Blocks(a, b) ==
    \/ tasks[b].id \in RelatedIds(tasks[a], "blocking")
    \/ tasks[a].id \in RelatedIds(tasks[b], "blocked")

RECURSIVE ReachWithin(_, _, _)
ReachWithin(a, b, steps) ==
    /\ steps > 0
    /\ \/ Blocks(a, b)
       \/ \E c \in Idx : Blocks(a, c) /\ ReachWithin(c, b, steps - 1)

\* tasks[i] lies on a cycle of length >= 2 of the blocking relation.
OnCycle(i) ==
    \E j \in Idx \ {i} :
        ReachWithin(i, j, Len(tasks)) /\ ReachWithin(j, i, Len(tasks))

\* C3: every task on a cycle of length >= 2 gets a score that is not negative
\* after the blocked penalty.
C3_CycleScoresNotNegative ==
    \A i \in Idx : OnCycle(i) => scored[i].calculatedPriority >= 0

\* C4: within the walk of one top-level call no task is evaluated (passes the
\* guard and is scored) more than once.
C4_NoTaskEvaluatedTwice ==
    \A i \in Idx :
        LET walk == Walk(i)
        IN  \A k, l \in 1..Len(walk) :
                (k < l /\ walk[k].outcome = "scored" /\ walk[l].outcome = "scored")
                    => walk[k].id # walk[l].id

\* C5: a completed task has score 0, and its breakdown has finalScore 0 and
\* isBlocked false, whatever its attributes and relations.
C5_CompletedScoresZero ==
    \A i \in Idx :
        tasks[i].completed =>
            /\ scored[i].calculatedPriority = 0
            /\ breakdowns[i].finalScore = 0
            /\ breakdowns[i].isBlocked = FALSE

\* A completed task with a priority and a due date that has an incomplete
\* blocker and an incomplete dependent.
C5_Witness ==
    \E i \in Idx :
        /\ tasks[i].completed
        /\ tasks[i].priority > 0
        /\ tasks[i].dueDate.kind = "valid"
        /\ isTaskBlocked(tasks[i], tasks)
        /\ Len(ActiveBlockedTasks(tasks[i], tasks)) > 0
        /\ scored[i].calculatedPriority = 0
        /\ breakdowns[i].isBlocked = FALSE

\* The claim's own reading of "blocked": the relation list of tasks[i] has a
\* `blocked` entry whose other_task_id is the id of a task of the snapshot
\* that is not completed.
HasIncompleteDeclaredBlocker(i) ==
    \E k \in 1..Len(tasks[i].relatedTasks) :
        LET entry == tasks[i].relatedTasks[k]
        IN  /\ entry.relation_kind = "blocked"
            /\ \E j \in Idx :
                   tasks[j].id = entry.other_task_id /\ ~tasks[j].completed

\* C6: isTaskBlocked(t, tasks) is true exactly when t's own relation list has
\* a `blocked` entry naming a task that is in the snapshot and not completed;
\* the breakdown of an incomplete task reports the same flag.  Entries naming
\* completed or absent tasks, and `blocking` entries other tasks declare
\* toward t, make no difference.
C6_BlockedIffOwnIncompleteBlocker ==
    \A i \in Idx :
        /\ isTaskBlocked(tasks[i], tasks) = HasIncompleteDeclaredBlocker(i)
        /\ ~tasks[i].completed =>
               breakdowns[i].isBlocked = HasIncompleteDeclaredBlocker(i)

\* One snapshot with a blocked task, a task that is not blocked although the
\* hub declares `blocking` toward it, and a hub that is not blocked because
\* the only blocker it names is completed.
C6_Witness ==
    \E i, j \in Idx :
        /\ i # 1 /\ j # 1 /\ i # j
        /\ RelatedIds(tasks[1], "blocking") = {tasks[i].id, tasks[j].id}
        /\ ~tasks[1].completed
        /\ isTaskBlocked(tasks[i], tasks)
        /\ RelatedIds(tasks[j], "blocked") = {}
        /\ ~isTaskBlocked(tasks[j], tasks)
        /\ RelatedIds(tasks[1], "blocked") = {tasks[j].id}
        /\ tasks[j].completed
        /\ ~isTaskBlocked(tasks[1], tasks)

\* A task whose `blocked` entries name a completed task and an id that is not
\* in the snapshot: it is not blocked.
C6_AbsentBlockerReached ==
    \E i \in Idx :
        /\ \E id \in RelatedIds(tasks[i], "blocked") :
               \A j \in Idx : tasks[j].id # id
        /\ \E j \in Idx :
               tasks[j].id \in RelatedIds(tasks[i], "blocked") /\ tasks[j].completed
        /\ ~isTaskBlocked(tasks[i], tasks)

\* The snapshot with the `blocked` entries of task i removed.
WithoutBlockedEntries(allTasks, i) ==
    [allTasks EXCEPT ![i].relatedTasks =
        SelectSeq(@, LAMBDA r : r.relation_kind # "blocked")]

AllBlockersCompleted(i) ==
    LET blockers == getBlockingTasks(tasks[i], tasks)
    IN  \A k \in 1..Len(blockers) : blockers[k].completed

\* C7: an incomplete task all of whose blockers are completed gets the score
\* it gets in the same snapshot with its `blocked` entries removed.
C7_CompletedBlockersNoPenalty ==
    \A i \in Idx :
        (~tasks[i].completed /\ AllBlockersCompleted(i)) =>
            scored[i].calculatedPriority =
                calculatePriorities(WithoutBlockedEntries(tasks, i))[i].calculatedPriority

\* An incomplete task with a `blocked` entry naming a completed task of the
\* snapshot, itself blocking an incomplete task.
C7_Witness ==
    \E i \in Idx :
        /\ ~tasks[i].completed
        /\ Len(getBlockingTasks(tasks[i], tasks)) > 0
        /\ AllBlockersCompleted(i)
        /\ Len(ActiveBlockedTasks(tasks[i], tasks)) > 0
        /\ scored[i].calculatedPriority =
               calculatePriorities(WithoutBlockedEntries(tasks, i))[i].calculatedPriority

\* The incomplete dependents of allTasks[i]: the positions of the tasks its
\* `blocking` entries name that are not completed.
Dependents(allTasks, i) ==
    {j \in 1..Len(allTasks) :
        /\ allTasks[j].id \in RelatedIds(allTasks[i], "blocking")
        /\ ~allTasks[j].completed}

\* What the dependent j adds to the inherited part of the bonus of i: its
\* score in the walk that starts at i, times BLOCKING_INHERITANCE.
InheritedShare(allTasks, i, j) ==
    Inherit(calculateTaskPriority(allTasks[j], allTasks, {allTasks[i].id}, 0).score)

RECURSIVE SumShares(_, _, _)
SumShares(allTasks, i, deps) ==
    IF deps = {} THEN 0
    ELSE LET j == CHOOSE x \in deps : TRUE
         IN  InheritedShare(allTasks, i, j) + SumShares(allTasks, i, deps \ {j})

\* The contribution of the dependent j to the bonus of i: its inherited share,
\* and the flat bonus when it is the only incomplete dependent.
Contribution(allTasks, i, j) ==
    InheritedShare(allTasks, i, j)
        + (IF Dependents(allTasks, i) = {j}
           THEN Tenths(TASKWARRIOR_WEIGHTS.BLOCKING_BONUS) ELSE 0)

\* A task with `blocking` entries none of which names an incomplete task of
\* the snapshot has blockingBonus 0.
NoDependentsNoBonus ==
    \A i \in Idx :
        (~tasks[i].completed /\ Dependents(tasks, i) = {}) =>
            breakdowns[i].blockingBonus = 0

\* This step completes the dependent d of the incomplete task i.
CompletesDependent(i, d) ==
    /\ i # d
    /\ ~tasks[i].completed /\ ~tasks'[i].completed
    /\ d \in Dependents(tasks, i)
    /\ tasks'[d].completed

\* C8 as stated: a task none of whose `blocking` entries names an incomplete
\* task has blockingBonus 0, and a step that completes one dependent lowers
\* the blocker's bonus by exactly that dependent's contribution.
C8_CompletionRemovesExactlyItsShare ==
    /\ []NoDependentsNoBonus
    /\ [][\A i, d \in Idx :
            CompletesDependent(i, d) =>
                breakdowns'[i].blockingBonus =
                    breakdowns[i].blockingBonus - Contribution(tasks, i, d)]_vars

\* The tasks a walk entered at the tasks of S can reach through `blocking`
\* entries in at most `steps` calls.
RECURSIVE Downstream(_, _)
Downstream(S, steps) ==
    IF steps = 0 THEN S
    ELSE Downstream(S \cup {k \in Idx :
                               \E x \in S :
                                   tasks[k].id \in RelatedIds(tasks[x], "blocking")},
                    steps - 1)

\* The score of j does not look at d: no task a walk from j reaches is d or
\* names d as a blocker.
IndependentOf(j, d) ==
    \A x \in Downstream({j}, Len(tasks)) :
        x # d /\ tasks[d].id \notin RelatedIds(tasks[x], "blocked")

\* C8, amended: a task none of whose `blocking` entries names an incomplete
\* task has blockingBonus 0.  After a step that completes one dependent the
\* blocker's bonus is the flat bonus (if an incomplete dependent remains) plus
\* the shares of the remaining dependents, scored again on the new snapshot;
\* it is the old bonus less the completed dependent's contribution when the
\* score of no remaining dependent looks at the completed one.
C8_CompletionRemovesShare ==
    /\ []NoDependentsNoBonus
    /\ [][\A i, d \in Idx :
            CompletesDependent(i, d) =>
                LET remaining == Dependents(tasks, i) \ {d}
                IN  /\ Dependents(tasks', i) = remaining
                    /\ breakdowns'[i].blockingBonus =
                           (IF remaining = {} THEN 0
                            ELSE Tenths(TASKWARRIOR_WEIGHTS.BLOCKING_BONUS))
                               + SumShares(tasks', i, remaining)
                    /\ (\A j \in remaining : IndependentOf(j, d)) =>
                           breakdowns'[i].blockingBonus =
                               breakdowns[i].blockingBonus
                                   - Contribution(tasks, i, d)]_vars

\* The snapshot before tasks[d] was completed.
Reopened(d) == [tasks EXCEPT ![d].completed = FALSE]

\* A blocker one of whose two dependents has just been completed: the bonus
\* went down by that dependent's share, which was not 0, and the other
\* dependent still earns the flat bonus.
C8_Witness ==
    \E i, d \in Idx :
        /\ i # d /\ ~tasks[i].completed /\ tasks[d].completed
        /\ tasks[d].id \in RelatedIds(tasks[i], "blocking")
        /\ Dependents(tasks, i) # {}
        /\ \A j \in Dependents(tasks, i) : IndependentOf(j, d)
        /\ Contribution(Reopened(d), i, d) # 0
        /\ breakdowns[i].blockingBonus =
               calculatePriorityBreakdown(tasks[i], Reopened(d)).blockingBonus
                   - Contribution(Reopened(d), i, d)

\* The snapshot with the `blocking` entry of task t toward task b removed:
\* the same tasks, t blocking one task less.
WithoutBlockingEntry(allTasks, t, b) ==
    [allTasks EXCEPT ![t].relatedTasks =
        SelectSeq(@, LAMBDA r : ~(r.relation_kind = "blocking"
                                    /\ r.other_task_id = allTasks[b].id))]

\* The blockingBonus task t would have if it did not declare `blocking` b.
BonusWithout(t, b) ==
    LET variant == WithoutBlockingEntry(tasks, t, b)
    IN  calculatePriorityBreakdown(variant[t], variant).blockingBonus

\* C9: a task blocking exactly two other incomplete tasks a and b, a urgent
\* (its score is positive) and b scored at least as high as a, has a strictly
\* higher blockingBonus than the otherwise-identical task that blocks a alone.
C9_TwoDependentsOutweighOne ==
    \A t, a, b \in Idx :
        (/\ ~tasks[t].completed
         /\ a # b /\ t # a /\ t # b
         /\ Dependents(tasks, t) = {a, b}
         /\ scored[a].calculatedPriority > 0
         /\ scored[b].calculatedPriority >= scored[a].calculatedPriority)
            => BonusWithout(t, b) < breakdowns[t].blockingBonus

\* What the breakdown of tasks[i] reports as its score without relations.
OwnFactors(i) ==
    breakdowns[i].baseScore + breakdowns[i].dueDateScore
        + breakdowns[i].startDateScore

BonusLiftsScore(i) ==
    /\ breakdowns[i].blockingBonus > 0
    /\ scored[i].calculatedPriority > OwnFactors(i)

TotalIsSumOfFactors(i) ==
    breakdowns[i].totalBeforeBlocked =
        breakdowns[i].baseScore + breakdowns[i].dueDateScore
            + breakdowns[i].startDateScore + breakdowns[i].ageScore
            + breakdowns[i].blockingBonus

\* C11: a blocked task keeps its blocking bonus.  For every incomplete task
\* the bonus is the one it has in the same snapshot with its `blocked`
\* entries removed, the total includes the bonus, and the penalty of 5 is
\* taken once from that total: finalScore = totalBeforeBlocked - 5 when
\* blocked and finalScore = totalBeforeBlocked otherwise, in the breakdown
\* and in the score of calculatePriorities.
C11_BlockedKeepsBonus ==
    \A i \in Idx :
        ~tasks[i].completed =>
            LET unblocked == WithoutBlockedEntries(tasks, i)
            IN  /\ breakdowns[i].blockingBonus =
                       calculatePriorityBreakdown(unblocked[i], unblocked).blockingBonus
                /\ TotalIsSumOfFactors(i)
                /\ breakdowns[i].finalScore =
                       breakdowns[i].totalBeforeBlocked
                           - (IF breakdowns[i].isBlocked THEN Tenths(50) ELSE 0)
                /\ scored[i].calculatedPriority = breakdowns[i].finalScore

\* A blocked task that blocks an incomplete task itself: it has a bonus above
\* the flat one and pays the penalty once.
C11_Witness ==
    \E i \in Idx :
        /\ ~tasks[i].completed
        /\ breakdowns[i].isBlocked
        /\ breakdowns[i].blockingBonus > Tenths(TASKWARRIOR_WEIGHTS.BLOCKING_BONUS)
        /\ breakdowns[i].finalScore = breakdowns[i].totalBeforeBlocked - Tenths(50)

\* The score of the dependent j in the walk that starts at i.
ScoreInWalk(allTasks, i, j) ==
    calculateTaskPriority(allTasks[j], allTasks, {allTasks[i].id}, 0).score

RECURSIVE SumScoresInWalk(_, _, _)
SumScoresInWalk(allTasks, i, deps) ==
    IF deps = {} THEN 0
    ELSE LET j == CHOOSE x \in deps : TRUE
         IN  ScoreInWalk(allTasks, i, j) + SumScoresInWalk(allTasks, i, deps \ {j})

\* The number of `blocking` entries of tasks[i] that name tasks[j].
EntriesToward(i, j) ==
    Len(SelectSeq(tasks[i].relatedTasks,
                  LAMBDA r : r.relation_kind = "blocking"
                                 /\ r.other_task_id = tasks[j].id))

\* C12: for an incomplete task t whose `blocking` entries name the set D of
\* incomplete tasks of the snapshot, blockingBonus(t) is 8 if D is not empty
\* (else 0) plus 0.2 times the sum over D of the score of each dependent in the
\* walk from t (visited set {t}); a dependent named by several entries counts
\* once, and the bonus is above 8 whenever those scores sum to more than 0.
C12_BonusIsFlatPlusShares ==
    \A i \in Idx :
        ~tasks[i].completed =>
            LET D == Dependents(tasks, i)
                flat == IF D = {} THEN 0 ELSE Tenths(80)
                sum == SumScoresInWalk(tasks, i, D)
            IN  /\ 10 * breakdowns[i].blockingBonus = 10 * flat + 2 * sum
                /\ sum > 0 => breakdowns[i].blockingBonus > Tenths(80)

\* A task with three `blocking` entries, two of them naming the same
\* incomplete task and one naming another: the bonus is 8 plus a fifth of the
\* two scores.
C12_Witness ==
    \E i, j, k \in Idx :
        /\ j # k /\ ~tasks[i].completed
        /\ Dependents(tasks, i) = {j, k}
        /\ EntriesToward(i, j) = 2 /\ EntriesToward(i, k) = 1
        /\ ScoreInWalk(tasks, i, j) > 0
        /\ 10 * breakdowns[i].blockingBonus =
               10 * Tenths(80) + 2 * (ScoreInWalk(tasks, i, j) + ScoreInWalk(tasks, i, k))

\* C13: the blocked penalty never turns an otherwise-positive score negative:
\* an incomplete blocked task whose totalBeforeBlocked is above 0 has a final
\* score that is not below 0, in the breakdown and from calculatePriorities.
C13_PenaltyKeepsPositiveScoresNonNegative ==
    \A i \in Idx :
        (/\ ~tasks[i].completed
         /\ breakdowns[i].isBlocked
         /\ breakdowns[i].totalBeforeBlocked > 0)
            => /\ breakdowns[i].finalScore >= 0
               /\ scored[i].calculatedPriority >= 0

\* The score calculatePriorities gives tasks[i] in the snapshot where only
\* its start date is replaced.
ScoreWithStartDate(i, startDate) ==
    calculatePriorities([tasks EXCEPT ![i].startDate = startDate])[i].calculatedPriority

\* C14: for every incomplete task of every snapshot, blocked or not, the task
\* with a start date in the future scores strictly below the same task with
\* no start date, which scores strictly below the same task with a start date
\* now or in the past.
C14_StartDateOrdersScores ==
    \A i \in Idx :
        ~tasks[i].completed =>
            LET unset == ScoreWithStartDate(i, NoDate)
            IN  /\ \A ahead \in {1, 5 * MsPerDay} :
                       ScoreWithStartDate(i, DateAt(now + ahead)) < unset
                /\ \A behind \in {0, 5 * MsPerDay} :
                       unset < ScoreWithStartDate(i, DateAt(now - behind))

\* A blocked task that blocks another and cannot start yet: it scores 3 less
\* than it would with no start date and 4.5 less than if it had started.
C14_Witness ==
    \E i \in Idx :
        /\ ~tasks[i].completed
        /\ breakdowns[i].isBlocked
        /\ Dependents(tasks, i) # {}
        /\ tasks[i].startDate.kind = "valid" /\ tasks[i].startDate.at > now
        /\ scored[i].calculatedPriority = ScoreWithStartDate(i, NoDate) - Tenths(30)
        /\ scored[i].calculatedPriority = ScoreWithStartDate(i, DateAt(now)) - Tenths(45)

\* The due date of the task of SpecDates and the time remaining until it.
Due == tasks[1].dueDate
Remaining == Due.at - now

\* The due-date score is between 0 and the maximum, and every overdue instant
\* gets the maximum, in both versions of evaluateDueDate.
DueScoreInRange ==
    Due.kind = "valid" =>
        /\ breakdowns[1].dueDateScore >= 0
        /\ breakdowns[1].dueDateScore <= Tenths(TASKWARRIOR_WEIGHTS.DUE_MAX)
        /\ Remaining < 0 =>
               breakdowns[1].dueDateScore = Tenths(TASKWARRIOR_WEIGHTS.DUE_MAX)
        /\ evaluateDueDateBanded(Due).score >= 0
        /\ evaluateDueDateBanded(Due).score <= PRIORITY_WEIGHTS.DUE_DATE_OVERDUE
        /\ Remaining < 0 =>
               evaluateDueDateBanded(Due).score = PRIORITY_WEIGHTS.DUE_DATE_OVERDUE

\* A step that leaves the due date valid and does not shorten the time
\* remaining does not raise the score; one that does not lengthen it does not
\* lower the score.
DueScoreFollowsRemaining ==
    (Due.kind = "valid" /\ Due'.kind = "valid") =>
        /\ Remaining' >= Remaining =>
               /\ breakdowns'[1].dueDateScore <= breakdowns[1].dueDateScore
               /\ evaluateDueDateBanded(Due)'.score <= evaluateDueDateBanded(Due).score
        /\ Remaining' <= Remaining =>
               /\ breakdowns'[1].dueDateScore >= breakdowns[1].dueDateScore
               /\ evaluateDueDateBanded(Due)'.score >= evaluateDueDateBanded(Due).score

\* C15: the due-date contribution is never negative and never grows with the
\* time remaining until the due instant, and every overdue instant gets the
\* maximum (Taskwarrior-weight and banded version).
C15_DueScoreMonotone ==
    []DueScoreInRange /\ [][DueScoreFollowsRemaining]_vars

\* A due date inside the 14-day window: its score lies strictly between 0 and
\* the maximum, strictly between the scores of the instants a tick earlier
\* and a tick later.
C15_Witness ==
    /\ Due.kind = "valid"
    /\ Remaining > 0 /\ Remaining < TASKWARRIOR_WEIGHTS.DUE_RANGE_DAYS * MsPerDay
    /\ now > Now0
    /\ breakdowns[1].dueDateScore > 0
    /\ breakdowns[1].dueDateScore < Tenths(TASKWARRIOR_WEIGHTS.DUE_MAX)
    /\ evaluateDueDate(DateAt(Due.at - 1)).score > breakdowns[1].dueDateScore
    /\ evaluateDueDate(DateAt(Due.at + 1)).score < breakdowns[1].dueDateScore

\* C16: (Taskwarrior-weight version) a task due exactly now is overdue: it
\* gets the maximal due-date score, the one an instant in the past gets, and
\* not the lower score of an instant shortly in the future.
C16_DueNowIsOverdue ==
    (Due.kind = "valid" /\ Remaining = 0) =>
        /\ breakdowns[1].hasDueDate
        /\ breakdowns[1].dueDateScore = Tenths(TASKWARRIOR_WEIGHTS.DUE_MAX)
        /\ breakdowns[1].dueDateScore = evaluateDueDate(DateAt(now - 1)).score
        /\ breakdowns[1].dueDateScore = evaluateDueDate(DateAt(now - MsPerDay)).score
        /\ breakdowns[1].dueDateScore > evaluateDueDate(DateAt(now + 1)).score

\* The clock has reached the due instant of a task that was due in the future
\* when it was first scored.
C16_Witness ==
    /\ Due.kind = "valid" /\ Remaining = 0
    /\ now > Now0
    /\ breakdowns[1].dueDateScore = Tenths(TASKWARRIOR_WEIGHTS.DUE_MAX)
    /\ scored[1].calculatedPriority =
           getPriorityScore(tasks[1].priority) + Tenths(TASKWARRIOR_WEIGHTS.DUE_MAX)

\* C17: (banded version) band edges belong to the nearer band: due in exactly
\* 24 hours gets the 24-hour score, due in exactly 3 days the 3-day score,
\* due in exactly 7 days the 7-day score.
C17_BandEdgesInclusive ==
    Due.kind = "valid" =>
        /\ Remaining = 1 * MsPerDay =>
               evaluateDueDateBanded(Due).score = PRIORITY_WEIGHTS.DUE_DATE_URGENT
        /\ Remaining = 3 * MsPerDay =>
               evaluateDueDateBanded(Due).score = PRIORITY_WEIGHTS.DUE_DATE_SOON
        /\ Remaining = 7 * MsPerDay =>
               evaluateDueDateBanded(Due).score = PRIORITY_WEIGHTS.DUE_DATE_THIS_WEEK

C19_DueIn20DaysScores30 ==
    (Due.kind = "valid" /\ Remaining = 20 * MsPerDay) =>
        breakdowns[1].dueDateScore = Tenths(300)

\* What the claim says getTopPriorityTask returns for `list`: nothing when no
\* task is incomplete, else the first incomplete task whose priority (0 when
\* missing) no incomplete task exceeds.
IsTopOf(top, list) ==
    LET incomplete == {i \in 1..Len(list) : ~list[i].completed}
    IN  IF incomplete = {} THEN top = <<>>
        ELSE /\ Len(top) = 1
             /\ \E i \in incomplete :
                    /\ top[1] = list[i]
                    /\ \A j \in incomplete :
                           PriorityOrZero(list[j]) <= PriorityOrZero(list[i])
                    /\ \A j \in incomplete :
                           j < i => PriorityOrZero(list[j]) < PriorityOrZero(list[i])

\* C20: getTopPriorityTask returns null exactly when no task is incomplete;
\* otherwise it returns an incomplete task whose calculatedPriority (0 when
\* missing) no other incomplete task exceeds, the first such task in input
\* order; never a completed task.  Checked on the scored list and on the
\* unscored snapshot, where every calculatedPriority is missing.
C20_TopIsFirstMaximalIncomplete ==
    LET top == getTopPriorityTask(scored)
    IN  /\ IsTopOf(top, scored)
        /\ IsTopOf(getTopPriorityTask(tasks), tasks)
        /\ (top = <<>>) = (\A i \in Idx : scored[i].completed)
        /\ top # <<>> => ~top[1].completed

\* Two incomplete tasks tied for the highest score among the incomplete
\* ones, both negative, after a completed task (score 0) that comes first in
\* the list: the earlier of the two is returned.
C20_Witness ==
    \E i, j \in Idx :
        /\ i < j
        /\ scored[1].completed
        /\ ~scored[i].completed /\ ~scored[j].completed
        /\ scored[i].calculatedPriority = scored[j].calculatedPriority
        /\ \A k \in Idx :
               ~scored[k].completed =>
                   scored[k].calculatedPriority <= scored[i].calculatedPriority
        /\ scored[i].calculatedPriority < scored[1].calculatedPriority
        /\ getTopPriorityTask(scored) = <<scored[i]>>

\* The list with its elements in the order p (a permutation of the positions).
Reordered(list, p) == [k \in 1..Len(list) |-> list[p[k]]]

\* `out` holds the incomplete tasks before the completed ones, each group by
\* falling priority (0 when missing), equal priorities by falling id.
InSortOrder(out) ==
    \A k, l \in 1..Len(out) :
        k < l =>
            /\ ~(out[k].completed /\ ~out[l].completed)
            /\ out[k].completed = out[l].completed =>
                   /\ PriorityOrZero(out[k]) >= PriorityOrZero(out[l])
                   /\ PriorityOrZero(out[k]) = PriorityOrZero(out[l]) =>
                          out[k].id > out[l].id

\* C21: sortByPriority returns a permutation of its input with every
\* incomplete task before every completed one, each group in non-increasing
\* calculatedPriority, ties by larger id first; the output is the same for
\* every ordering of the same input tasks.
C21_SortOrder ==
    LET out == sortByPriority(scored)
    IN  /\ Len(out) = Len(scored)
        /\ \A i \in Idx : \E k \in 1..Len(out) : out[k] = scored[i]
        /\ InSortOrder(out)
        /\ \A p \in Permutations(Idx) : sortByPriority(Reordered(scored, p)) = out

\* A completed first task (score 0) and two incomplete tasks tied on a
\* negative score: the output is task 3, task 2, task 1.
C21_Witness ==
    /\ scored[1].completed
    /\ ~scored[2].completed /\ ~scored[3].completed
    /\ scored[2].calculatedPriority = scored[3].calculatedPriority
    /\ scored[2].calculatedPriority < 0
    /\ sortByPriority(scored)[1] = scored[3]
    /\ sortByPriority(scored)[2] = scored[2]
    /\ sortByPriority(scored)[Len(scored)] = scored[1]

\* The snapshot with the score `stale` already attached to every task.
WithAttached(allTasks, stale) ==
    [i \in 1..Len(allTasks) |->
        [f \in DOMAIN allTasks[i] \cup {"calculatedPriority"} |->
            IF f = "calculatedPriority" THEN stale ELSE allTasks[i][f]]]

\* Scores left over from an earlier pass.
StaleScores == {-1, 1000000}

RECURSIVE Reverse(_)
Reverse(list) ==
    IF Len(list) = 0 THEN <<>> ELSE Reverse(Tail(list)) \o <<Head(list)>>

EntriesReversed(allTasks) ==
    [i \in 1..Len(allTasks) |->
        [allTasks[i] EXCEPT !.relatedTasks = Reverse(@)]]

\* C24: calculatePriorities returns one annotated task per input task, in
\* input order; each score is the one calculateTaskPriority gives for that
\* task with an empty visited set, whatever the order of the tasks and of
\* the relation entries.
C24_EachTaskScoredAlone ==
    /\ Len(scored) = Len(tasks)
    /\ \A i \in Idx :
           /\ DOMAIN scored[i] = DOMAIN tasks[i] \cup {"calculatedPriority"}
           /\ \A f \in DOMAIN tasks[i] : scored[i][f] = tasks[i][f]
           /\ scored[i].calculatedPriority
                  = calculateTaskPriority(tasks[i], tasks, {}, 0).score
    /\ \A p \in Permutations(Idx) :
           LET reordered == calculatePriorities(Reordered(tasks, p))
           IN  \A k \in Idx : reordered[k] = scored[p[k]]
    /\ LET reversed == calculatePriorities(EntriesReversed(tasks))
       IN  \A i \in Idx :
               reversed[i].calculatedPriority = scored[i].calculatedPriority

\* A task that blocks an incomplete task scored before it.
C24_Witness ==
    \E i, j \in Idx :
        /\ j < i
        /\ ~tasks[i].completed /\ ~tasks[j].completed
        /\ tasks[j].id \in RelatedIds(tasks[i], "blocking")
        /\ scored[j].calculatedPriority # 0
        /\ scored[i].calculatedPriority
               = calculateTaskPriority(tasks[i], tasks, {}, 0).score

\* Relation kinds without scoring weight, and the tasks they may point at
\* (the last one is not in the snapshot).
OtherKinds == {"subtask", "related"}

OtherTargets == TaskIds \cup {NumTasks + 1}

WithRelation(allTasks, j, relation) ==
    [allTasks EXCEPT ![j].relatedTasks = <<relation>> \o @]

\* The snapshot in which task j has no relatedTasks field.
WithoutRelationList(allTasks, j) ==
    [allTasks EXCEPT ![j] =
        [f \in DOMAIN allTasks[j] \ {"relatedTasks"} |-> allTasks[j][f]]]

\* Every task of `variant` gets the score and the breakdown it has now.
ScoredAlike(variant) ==
    /\ LET rescored == calculatePriorities(variant)
       IN  \A i \in Idx :
               rescored[i].calculatedPriority = scored[i].calculatedPriority
    /\ \A i \in Idx :
           calculatePriorityBreakdown(variant[i], variant) = breakdowns[i]

\* C25: a relation of a kind other than blocking and blocked, on any task,
\* changes no score and no breakdown, and a task without a relation list is
\* scored like one with an empty list.
C25_OtherRelationsIgnored ==
    \A j \in Idx :
        /\ \A kind \in OtherKinds, other \in OtherTargets :
               ScoredAlike(WithRelation(tasks, j, Relation(kind, other)))
        /\ Len(tasks[j].relatedTasks) = 0 =>
               ScoredAlike(WithoutRelationList(tasks, j))

\* An incomplete blocker gets a `related` entry toward the task it blocks,
\* and that task, whose list is empty, loses its list.
C25_Witness ==
    \E i, j \in Idx :
        /\ ~tasks[i].completed /\ ~tasks[j].completed
        /\ tasks[j].id \in RelatedIds(tasks[i], "blocking")
        /\ Len(tasks[j].relatedTasks) = 0
        /\ breakdowns[i].blockingBonus > 0
        /\ ScoredAlike(WithRelation(tasks, i, Relation("related", tasks[j].id)))
        /\ ScoredAlike(WithoutRelationList(tasks, j))

\* The fields the PriorityBreakdown interface declares.
BreakdownFields ==
    {"baseScore", "dueDateScore", "hasDueDate", "startDateScore", "ageScore",
     "blockingBonus", "isBlocked", "totalBeforeBlocked", "finalScore"}

\* C27: every breakdown, of a completed task as of an incomplete one, has
\* all nine components, and totalBeforeBlocked is the sum of baseScore,
\* dueDateScore, startDateScore, ageScore and blockingBonus.
C27_BreakdownComplete ==
    \A i \in Idx :
        /\ DOMAIN breakdowns[i] = BreakdownFields
        /\ breakdowns[i].totalBeforeBlocked
               = breakdowns[i].baseScore + breakdowns[i].dueDateScore
                 + breakdowns[i].startDateScore + breakdowns[i].ageScore
                 + breakdowns[i].blockingBonus

\* The positions of the incomplete tasks with the highest score.
TopPositions ==
    {i \in Idx :
        /\ ~scored[i].completed
        /\ \A j \in Idx :
               ~scored[j].completed =>
                   PriorityOrZero(scored[j]) <= PriorityOrZero(scored[i])}

\* C28 as stated: with an incomplete task in the list, getTopPriorityTask
\* returns the first element of sortByPriority, ties included.
C28_TopIsFirstOfSorted ==
    (\E i \in Idx : ~scored[i].completed) =>
        getTopPriorityTask(scored) = <<sortByPriority(scored)[1]>>

\* C28, amended: both selectors return an incomplete task with the highest
\* score, the same one when no other incomplete task has that score; among
\* tied tasks getTopPriorityTask returns the first in input order and
\* sortByPriority starts with the one with the largest id.
C28_SelectorsAgreeUpToTies ==
    (\E i \in Idx : ~scored[i].completed) =>
        LET top == getTopPriorityTask(scored)
            first == sortByPriority(scored)[1]
        IN  /\ Len(top) = 1
            /\ \E i \in TopPositions :
                   /\ top[1] = scored[i]
                   /\ \A j \in TopPositions : i <= j
            /\ \E i \in TopPositions :
                   /\ first = scored[i]
                   /\ \A j \in TopPositions : scored[j].id <= scored[i].id
            /\ Cardinality(TopPositions) = 1 => top[1] = first

\* Tasks 2 and 3 tie on the highest score of the incomplete tasks: the top
\* task is task 2, the sorted list starts with task 3.
C28_Witness ==
    /\ scored[1].completed
    /\ TopPositions = {2, 3}
    /\ getTopPriorityTask(scored) = <<scored[2]>>
    /\ sortByPriority(scored)[1] = scored[3]

\* C30: when the handler of /api/chat answers, the MCP client it created has
\* been released: connected is false and client and transport are null.
C30_ClientReleasedBeforeResponse ==
    chat.response # 0 =>
        /\ ~chat.connected
        /\ ~chat.client
        /\ ~chat.transport

\* C26: once the mutations of the list have been processed (no update is
\* under way), every displayed task carries a calculatedPriority equal to
\* the score the engine computes for the displayed list.
C26_DisplayedScoresAreCurrent ==
    requests = NoRequests =>
        \A i \in 1..Len(scored) :
            /\ "calculatedPriority" \in DOMAIN scored[i]
            /\ scored[i].calculatedPriority
                   = calculatePriorities(scored)[i].calculatedPriority

\* C29: once no update request is in flight, the completed flag of every
\* displayed task equals the done flag the server holds.
C29_TogglesConverge ==
    requests = NoRequests =>
        \A i \in 1..Len(scored) :
            scored[i].completed = tasks[i].completed

====
